---------------------------- MODULE Spec2Model ----------------------------
(***************************************************************************)
(* Model of the bridge client's trust primitives:                          *)
(*   - PriceConfig::validate        (src/oracle/src/config.rs)             *)
(*   - PartialAddress conversions   (src/bitcoin/src/addr.rs)              *)
(*   - calculate_deposit_secret_key (src/bitcoin/src/addr.rs)              *)
(* Each primitive is a pure function of its inputs; every specification    *)
(* draws the inputs in its initial states and runs the function step by    *)
(* step.                                                                   *)
(***************************************************************************)
EXTENDS Integers, Sequences, FiniteSets, TLC

VARIABLES
    pc,       \* position inside the running operation
    \* PriceConfig::validate
    cfg,      \* the PriceConfig under validation: [pair, value, feeds]
    todo,     \* feeds the `for (name, path) in &self.feeds` loop has not visited
    end,      \* validate's local `end`
    w,        \* index of the current window of path.windows(2)
    result,   \* value returned by validate ("None" while running)
    \* PartialAddress
    impl,         \* the implementer: "Address" (interbtc_bitcoin::Address) or "Payload"
    payload,      \* the argument of from_payload
    self,         \* Result<Self, ConversionError>: the PartialAddress value
    network,      \* the argument of encode_str
    btc_address,  \* Result<String, ConversionError> of encode_str
    decoded,      \* Result<Self, ConversionError> of decode_str
    \* calculate_deposit_secret_key
    vault_key,          \* v
    issue_key,          \* c
    deposit_key,        \* Result<SecretKey, Error>: d = v * c
    deposit_public_key  \* Result<PublicKey, Error>: D = V * c

validateVars == <<cfg, todo, end, w, result>>
addrVars == <<impl, payload, self, network, btc_address, decoded>>
keyVars == <<vault_key, issue_key, deposit_key, deposit_public_key>>

vars == <<pc, validateVars, addrVars, keyVars>>

\* the value of every variable of an operation that is not running
Idle == "-"

AddrIdle ==
    /\ impl = Idle /\ payload = Idle /\ self = Idle
    /\ network = Idle /\ btc_address = Idle /\ decoded = Idle

KeyIdle ==
    /\ vault_key = Idle /\ issue_key = Idle
    /\ deposit_key = Idle /\ deposit_public_key = Idle

---------------------------------------------------------------------------
(* Bounds *)

\* longest path of a single-feed configuration
MaxPathLen == 3
\* longest path of a configuration with several feeds
MaxFeedPathLen == 2
\* byte strings of one length are numbered 0..MaxHashId
MaxHashId == 1

---------------------------------------------------------------------------
(* Currency pairs *)

\* currency identifiers (the symbols of the tests of config.rs)
Currency == {"BTC", "KSM", "USD", "DOT"}

\* the currencies used by the configurations with several feeds
FeedCurrency == {"BTC", "KSM"}

CurrencyPair(C) == [base : C, quote : C]

Pair(b, q) == [base |-> b, quote |-> q]

\* CurrencyPair::contains: the currency is one of the pair's legs
contains(p, c) == p.base = c \/ p.quote = c

\* CurrencyPair::has_shared: some leg of one pair is a leg of the other
has_shared(l, r) == contains(r, l.base) \/ contains(r, l.quote)

\* Vec<CurrencyPair>: every path of at most n pairs over the currencies C
Paths(C, n) == UNION {[1..k -> CurrencyPair(C)] : k \in 0..n}

---------------------------------------------------------------------------
(* PriceConfig *)

\* FeedName, with its derived Ord (the iteration order of the BTreeMap)
FeedName == {"Kraken", "GateIo"}

FeedRank(name) == IF name = "Kraken" THEN 1 ELSE 2

\* Option<f64>: the override value, absent or present
ValueOption == {"None", "Some"}

\* Target pairs.  validate is unchanged by renaming currencies, so a pair
\* of two different legs and a pair of two equal legs cover every target.
TargetPair == {Pair("BTC", "KSM"), Pair("BTC", "BTC")}

\* the configurations of the tests' macros: one feed, Kraken
SingleFeedConfigs ==
    {[pair |-> t, value |-> v, feeds |-> [n \in {"Kraken"} |-> p]] :
        t \in TargetPair, v \in ValueOption, p \in Paths(Currency, MaxPathLen)}

\* configurations with any set of feeds (none, one or several)
MultiFeedConfigs ==
    UNION {{[pair |-> t, value |-> v, feeds |-> f] :
                t \in TargetPair, v \in ValueOption,
                f \in [names -> Paths(FeedCurrency, MaxFeedPathLen)]} :
           names \in SUBSET FeedName}

PriceConfig == SingleFeedConfigs \cup MultiFeedConfigs

\* the keys of a BTreeMap in iteration order
RECURSIVE SortedKeys(_)
SortedKeys(S) ==
    IF S = {} THEN <<>>
    ELSE LET m == CHOOSE x \in S : \A y \in S : FeedRank(x) <= FeedRank(y)
         IN <<m>> \o SortedKeys(S \ {m})

---------------------------------------------------------------------------
(* Results of validate *)

NoResult == [tag |-> "None"]
Ok == [tag |-> "Ok"]

NoStart == [kind |-> "NoStart"]
NoEnd == [kind |-> "NoEnd"]
NoPath(l, r) == [kind |-> "NoPath", left |-> l, right |-> r]

PriceConfigError(name, pair, error) ==
    [tag |-> "Err", feed |-> name, pair |-> pair, error |-> error]

---------------------------------------------------------------------------
(* PriceConfig::validate, one action per step of the loop body *)

\* the feed the loop is at, and its path
CurName == Head(todo)
CurPath == cfg.feeds[CurName]

\* mutant: the second arm (the first pair holds the quote) is missing
StartMatchBaseOnly(pair, path) ==
    IF Len(path) > 0 /\ contains(path[1], pair.base) THEN pair.quote
    ELSE "none"

\* mutant: the two arms are in the other order, the quote is tried first
StartMatchQuoteFirst(pair, path) ==
    IF Len(path) > 0 /\ contains(path[1], pair.quote) THEN pair.base
    ELSE IF Len(path) > 0 /\ contains(path[1], pair.base) THEN pair.quote
    ELSE "none"

\* the `match &path.first()` of validate: "none" stands for the Err arm
StartMatch(pair, path) ==
    IF Len(path) > 0 /\ contains(path[1], pair.base) THEN pair.quote
    ELSE IF Len(path) > 0 /\ contains(path[1], pair.quote) THEN pair.base
    ELSE "none"

\* mutant: the second arm (the last pair's quote is the end) is missing
EndMatchBaseOnly(path, e) ==
    IF Len(path) > 0 /\ path[Len(path)].base = e THEN TRUE
    ELSE FALSE

\* the `match &path.last()` of validate
EndMatch(path, e) ==
    IF Len(path) > 0 /\ path[Len(path)].base = e THEN TRUE
    ELSE IF Len(path) > 0 /\ path[Len(path)].quote = e THEN TRUE
    ELSE FALSE

\* mutant: only the left pair's quote is looked up in the right pair
WindowOkQuoteOnly(left, right) == contains(right, left.quote)

\* the body of the windows(2) loop: the check of one window
WindowOk(left, right) == has_shared(left, right)

InitValidate ==
    /\ cfg \in PriceConfig
    /\ pc = "feed"
    /\ todo = SortedKeys(DOMAIN cfg.feeds)
    /\ end = "none"
    /\ w = 0
    /\ result = NoResult
    /\ AddrIdle
    /\ KeyIdle

\* lines 59-67: determine `end` from the first pair, or fail with NoStart
StartCheck ==
    /\ pc = "feed"
    /\ todo # <<>>
    /\ LET e == StartMatch(cfg.pair, CurPath)
       IN IF e # "none"
          THEN /\ end' = e
               /\ pc' = "end"
               /\ UNCHANGED result
          ELSE /\ result' = PriceConfigError(CurName, cfg.pair, NoStart)
               /\ pc' = "done"
               /\ UNCHANGED end
    /\ UNCHANGED <<cfg, todo, w, addrVars, keyVars>>

\* lines 69-77: the last pair must have `end` as base or quote, else NoEnd
EndCheck ==
    /\ pc = "end"
    /\ IF EndMatch(CurPath, end)
       THEN /\ pc' = "chain"
            /\ w' = 1
            /\ UNCHANGED result
       ELSE /\ result' = PriceConfigError(CurName, cfg.pair, NoEnd)
            /\ pc' = "done"
            /\ UNCHANGED w
    /\ UNCHANGED <<cfg, todo, end, addrVars, keyVars>>

\* lines 79-87: one iteration of the windows(2) loop
ChainStep ==
    /\ pc = "chain"
    /\ w < Len(CurPath)
    /\ IF WindowOk(CurPath[w], CurPath[w + 1])
       THEN /\ w' = w + 1
            /\ UNCHANGED <<pc, result>>
       ELSE /\ result' = PriceConfigError(CurName, cfg.pair,
                                          NoPath(CurPath[w], CurPath[w + 1]))
            /\ pc' = "done"
            /\ UNCHANGED w
    /\ UNCHANGED <<cfg, todo, end, addrVars, keyVars>>

\* mutant: the loop ends after the first feed that passes
NextFeedSkipRest ==
    /\ pc = "chain"
    /\ w >= Len(CurPath)
    /\ todo' = <<>>
    /\ pc' = "feed"
    /\ end' = "none"
    /\ w' = 0
    /\ UNCHANGED <<cfg, result, addrVars, keyVars>>

\* line 88: the windows are exhausted, the outer loop moves to the next feed
NextFeed ==
    /\ pc = "chain"
    /\ w >= Len(CurPath)
    /\ todo' = Tail(todo)
    /\ pc' = "feed"
    /\ end' = "none"
    /\ w' = 0
    /\ UNCHANGED <<cfg, result, addrVars, keyVars>>

\* line 90: every feed passed
ReturnOk ==
    /\ pc = "feed"
    /\ todo = <<>>
    /\ result' = Ok
    /\ pc' = "done"
    /\ UNCHANGED <<cfg, todo, end, w, addrVars, keyVars>>

NextValidate == StartCheck \/ EndCheck \/ ChainStep \/ NextFeed \/ ReturnOk

SpecValidate == InitValidate /\ [][NextValidate]_vars

---------------------------------------------------------------------------
(* Byte strings, payloads, scripts and address strings *)

\* length of a key hash or a P2SH script hash (H160, PubkeyHash, ScriptHash,
\* WPubkeyHash)
KeyHashLen == 20
\* length of a witness script hash (H256, WScriptHash)
WScriptHashLen == 32

\* A byte string is its length and an identifier of its content; byte
\* strings of the same length differ by their identifier.
NoBytes == [len |-> 0, id |-> 0]

Bytes(len) == {[len |-> len, id |-> i] : i \in 0..MaxHashId}

\* Result<T, ConversionError>
OkOf(v) == [tag |-> "Ok", v |-> v]
ErrOf(e) == [tag |-> "Err", v |-> [error |-> e]]

\* Hash::from_slice: fails unless the slice has the hash type's length
from_slice(bytes, len) ==
    IF bytes.len = len THEN OkOf(bytes) ELSE ErrOf("HashError")

Network == {"Bitcoin", "Testnet", "Regtest"}

\* witness versions and program lengths a witness program script can carry
WitnessVersion == 0..16
ProgramLen == {2, KeyHashLen, WScriptHashLen, 40}

\* Payload
PubkeyHash(h) == [kind |-> "PubkeyHash", version |-> 0, data |-> h]
ScriptHash(h) == [kind |-> "ScriptHash", version |-> 0, data |-> h]
WitnessProgram(v, prog) == [kind |-> "WitnessProgram", version |-> v, data |-> prog]
NoPayload == [kind |-> "None", version |-> 0, data |-> NoBytes]

\* every payload Payload::from_script and Address::from_str can return
Payload ==
    {PubkeyHash(h) : h \in Bytes(KeyHashLen)}
        \cup {ScriptHash(h) : h \in Bytes(KeyHashLen)}
        \cup UNION {{WitnessProgram(v, prog) : v \in WitnessVersion, prog \in Bytes(l)} :
                    l \in ProgramLen}

\* interbtc_bitcoin::Address
P2PKH(h) == [kind |-> "P2PKH", hash |-> h]
P2SH(h) == [kind |-> "P2SH", hash |-> h]
P2WPKHv0(h) == [kind |-> "P2WPKHv0", hash |-> h]
P2WSHv0(h) == [kind |-> "P2WSHv0", hash |-> h]

BtcAddress ==
    {P2PKH(h) : h \in Bytes(KeyHashLen)}
        \cup {P2SH(h) : h \in Bytes(KeyHashLen)}
        \cup {P2WPKHv0(h) : h \in Bytes(KeyHashLen)}
        \cup {P2WSHv0(h) : h \in Bytes(WScriptHashLen)}

\* Script: a sequence of opcodes and data pushes
Op(name) == [op |-> name, num |-> 0, data |-> NoBytes]
PushNum(v) == [op |-> "OP_PUSHNUM", num |-> v, data |-> NoBytes]
PushBytes(b) == [op |-> "OP_PUSHBYTES", num |-> 0, data |-> b]

new_p2pkh(h) ==
    <<Op("OP_DUP"), Op("OP_HASH160"), PushBytes(h), Op("OP_EQUALVERIFY"),
      Op("OP_CHECKSIG")>>
new_p2sh(h) == <<Op("OP_HASH160"), PushBytes(h), Op("OP_EQUAL")>>
new_v0_wpkh(h) == <<PushNum(0), PushBytes(h)>>
new_v0_wsh(h) == <<PushNum(0), PushBytes(h)>>

is_p2pkh(script) ==
    /\ Len(script) = 5
    /\ script[1] = Op("OP_DUP")
    /\ script[2] = Op("OP_HASH160")
    /\ script[3].op = "OP_PUSHBYTES" /\ script[3].data.len = KeyHashLen
    /\ script[4] = Op("OP_EQUALVERIFY")
    /\ script[5] = Op("OP_CHECKSIG")

is_p2sh(script) ==
    /\ Len(script) = 3
    /\ script[1] = Op("OP_HASH160")
    /\ script[2].op = "OP_PUSHBYTES" /\ script[2].data.len = KeyHashLen
    /\ script[3] = Op("OP_EQUAL")

is_witness_program(script) ==
    /\ Len(script) = 2
    /\ script[1].op = "OP_PUSHNUM" /\ script[1].num \in WitnessVersion
    /\ script[2].op = "OP_PUSHBYTES"
    /\ script[2].data.len >= 2 /\ script[2].data.len <= 40

\* Payload::from_script: Option<Payload>, NoPayload standing for None
from_script(script) ==
    IF is_p2pkh(script) THEN PubkeyHash(script[3].data)
    ELSE IF is_p2sh(script) THEN ScriptHash(script[2].data)
    ELSE IF is_witness_program(script)
         THEN WitnessProgram(script[1].num, script[2].data)
    ELSE NoPayload

\* Address { payload, network }
Address(p, n) == [payload |-> p, network |-> n]

\* An address string: what its encoding carries.  Base58Check carries a
\* prefix byte and the hash, bech32 a human-readable part, the witness
\* version and the program.
Base58(prefix, h) ==
    [enc |-> "base58", hrp |-> "", prefix |-> prefix, version |-> 0, data |-> h]
Bech32(hrp, v, prog) ==
    [enc |-> "bech32", hrp |-> hrp, prefix |-> 0, version |-> v, data |-> prog]

\* Address::to_string (impl Display for Address)
to_string(a) ==
    CASE a.payload.kind = "PubkeyHash" ->
            Base58(IF a.network = "Bitcoin" THEN 0 ELSE 111, a.payload.data)
      [] a.payload.kind = "ScriptHash" ->
            Base58(IF a.network = "Bitcoin" THEN 5 ELSE 196, a.payload.data)
      [] a.payload.kind = "WitnessProgram" ->
            Bech32(CASE a.network = "Bitcoin" -> "bc"
                     [] a.network = "Testnet" -> "tb"
                     [] a.network = "Regtest" -> "bcrt",
                   a.payload.version, a.payload.data)

\* Address::from_str (impl FromStr for Address)
from_str(s) ==
    IF s.enc = "bech32"
    THEN IF s.hrp \notin {"bc", "tb", "bcrt"} THEN ErrOf("ParseError")
         ELSE IF s.version > 16 THEN ErrOf("ParseError")
         ELSE IF s.data.len < 2 \/ s.data.len > 40 THEN ErrOf("ParseError")
         ELSE IF s.version = 0 /\ s.data.len # KeyHashLen
                               /\ s.data.len # WScriptHashLen
              THEN ErrOf("ParseError")
         ELSE OkOf(Address(WitnessProgram(s.version, s.data),
                           CASE s.hrp = "bc" -> "Bitcoin"
                             [] s.hrp = "tb" -> "Testnet"
                             [] s.hrp = "bcrt" -> "Regtest"))
    ELSE IF s.data.len # KeyHashLen THEN ErrOf("ParseError")
         ELSE CASE s.prefix = 0 -> OkOf(Address(PubkeyHash(s.data), "Bitcoin"))
                [] s.prefix = 5 -> OkOf(Address(ScriptHash(s.data), "Bitcoin"))
                [] s.prefix = 111 -> OkOf(Address(PubkeyHash(s.data), "Testnet"))
                [] s.prefix = 196 -> OkOf(Address(ScriptHash(s.data), "Testnet"))
                [] OTHER -> ErrOf("ParseError")

---------------------------------------------------------------------------
(* impl PartialAddress for interbtc_bitcoin::Address *)

\* from_payload, lines 39-51
address_from_payload(p) ==
    CASE p.kind = "PubkeyHash" -> OkOf(P2PKH(p.data))
      [] p.kind = "ScriptHash" -> OkOf(P2SH(p.data))
      [] p.kind = "WitnessProgram" ->
            IF p.data.len = KeyHashLen
            THEN OkOf(P2WPKHv0(p.data))
            ELSE ErrOf("InvalidPayload")

\* mutant: the P2SH arm builds the script of the P2PKH arm
address_script_p2pkh_for_p2sh(x) ==
    CASE x.kind = "P2PKH" ->
            LET h == from_slice(x.hash, KeyHashLen)
            IN IF h.tag = "Ok" THEN OkOf(new_p2pkh(h.v)) ELSE h
      [] x.kind = "P2SH" ->
            LET h == from_slice(x.hash, KeyHashLen)
            IN IF h.tag = "Ok" THEN OkOf(new_p2pkh(h.v)) ELSE h
      [] x.kind = "P2WPKHv0" ->
            LET h == from_slice(x.hash, KeyHashLen)
            IN IF h.tag = "Ok" THEN OkOf(new_v0_wpkh(h.v)) ELSE h
      [] x.kind = "P2WSHv0" ->
            LET h == from_slice(x.hash, WScriptHashLen)
            IN IF h.tag = "Ok" THEN OkOf(new_v0_wsh(h.v)) ELSE h

\* the `let script = match self` of to_address, lines 59-64
address_script(x) ==
    CASE x.kind = "P2PKH" ->
            LET h == from_slice(x.hash, KeyHashLen)
            IN IF h.tag = "Ok" THEN OkOf(new_p2pkh(h.v)) ELSE h
      [] x.kind = "P2SH" ->
            LET h == from_slice(x.hash, KeyHashLen)
            IN IF h.tag = "Ok" THEN OkOf(new_p2sh(h.v)) ELSE h
      [] x.kind = "P2WPKHv0" ->
            LET h == from_slice(x.hash, KeyHashLen)
            IN IF h.tag = "Ok" THEN OkOf(new_v0_wpkh(h.v)) ELSE h
      [] x.kind = "P2WSHv0" ->
            LET h == from_slice(x.hash, WScriptHashLen)
            IN IF h.tag = "Ok" THEN OkOf(new_v0_wsh(h.v)) ELSE h

\* to_address, lines 58-68
address_to_address(x, n) ==
    LET script == address_script(x)
    IN IF script.tag = "Err" THEN script
       ELSE LET p == from_script(script.v)
            IN IF p = NoPayload THEN ErrOf("InvalidPayload")
               ELSE OkOf(Address(p, n))

\* decode_str, lines 53-56
address_decode_str(s) ==
    LET addr == from_str(s)
    IN IF addr.tag = "Err" THEN addr ELSE address_from_payload(addr.v.payload)

---------------------------------------------------------------------------
(* impl PartialAddress for Payload *)

\* from_payload, lines 72-74
payload_from_payload(p) == OkOf(p)

\* decode_str, lines 76-79
payload_decode_str(s) ==
    LET address == from_str(s)
    IN IF address.tag = "Err" THEN address ELSE OkOf(address.v.payload)

\* to_address, lines 81-86
payload_to_address(x, n) == OkOf(Address(x, n))

---------------------------------------------------------------------------
(* PartialAddress, dispatched on the implementer *)

Impl == {"Address", "Payload"}

from_payload(i, p) ==
    IF i = "Address" THEN address_from_payload(p) ELSE payload_from_payload(p)

to_address(i, x, n) ==
    IF i = "Address" THEN address_to_address(x, n) ELSE payload_to_address(x, n)

decode_str(i, s) ==
    IF i = "Address" THEN address_decode_str(s) ELSE payload_decode_str(s)

\* the provided method encode_str, lines 25-28
encode_str(i, x, n) ==
    LET address == to_address(i, x, n)
    IN IF address.tag = "Err" THEN address ELSE OkOf(to_string(address.v))

ValidateIdle ==
    /\ cfg = Idle /\ todo = Idle /\ end = Idle /\ w = Idle /\ result = Idle

\* Either a payload is given, to be converted by from_payload, or a value of
\* the implementing type is given directly.
InitAddr ==
    /\ impl \in Impl
    /\ network \in Network
    /\ \/ /\ payload \in Payload
          /\ self = NoResult
          /\ pc = "from_payload"
       \/ /\ payload = NoPayload
          /\ self \in {OkOf(x) : x \in IF impl = "Address" THEN BtcAddress ELSE Payload}
          /\ pc = "encode_str"
    /\ btc_address = NoResult
    /\ decoded = NoResult
    /\ ValidateIdle
    /\ KeyIdle

FromPayload ==
    /\ pc = "from_payload"
    /\ self' = from_payload(impl, payload)
    /\ pc' = IF self'.tag = "Ok" THEN "encode_str" ELSE "done"
    /\ UNCHANGED <<impl, payload, network, btc_address, decoded>>
    /\ UNCHANGED <<validateVars, keyVars>>

EncodeStr ==
    /\ pc = "encode_str"
    /\ btc_address' = encode_str(impl, self.v, network)
    /\ pc' = IF btc_address'.tag = "Ok" THEN "decode_str" ELSE "done"
    /\ UNCHANGED <<impl, payload, self, network, decoded>>
    /\ UNCHANGED <<validateVars, keyVars>>

DecodeStr ==
    /\ pc = "decode_str"
    /\ decoded' = decode_str(impl, btc_address.v)
    /\ pc' = "done"
    /\ UNCHANGED <<impl, payload, self, network, btc_address>>
    /\ UNCHANGED <<validateVars, keyVars>>

NextAddr == FromPayload \/ EncodeStr \/ DecodeStr

SpecAddr == InitAddr /\ [][NextAddr]_vars

---------------------------------------------------------------------------
(* secp256k1, scaled down *)

\* The curve y^2 = x^3 + 7 of secp256k1 over the field of 43 elements: its
\* group has the prime order 31 and is generated by (2, 12).  A secret key
\* is 5 bits wide, so that, as for secp256k1, some values of that width
\* (0 and 31) are not valid scalars.
Curve == [p |-> 43, b |-> 7, n |-> 31, gx |-> 2, gy |-> 12, bits |-> 5]

RECURSIVE Pow(_, _, _)
Pow(a, e, m) == IF e = 0 THEN 1 ELSE (a * Pow(a, e - 1, m)) % m

\* the inverse in the field, by Fermat's little theorem
Inv(a) == Pow(a % Curve.p, Curve.p - 2, Curve.p)

Infinity == [inf |-> TRUE, x |-> 0, y |-> 0]
Point(x, y) == [inf |-> FALSE, x |-> x, y |-> y]
G == Point(Curve.gx, Curve.gy)

OnCurve(P) == P.inf \/ (P.y * P.y) % Curve.p = (P.x * P.x * P.x + Curve.b) % Curve.p

\* the group law
PointAdd(P, Q) ==
    IF P.inf THEN Q
    ELSE IF Q.inf THEN P
    ELSE IF P.x = Q.x /\ (P.y + Q.y) % Curve.p = 0 THEN Infinity
    ELSE LET l == IF P = Q
                  THEN (3 * P.x * P.x * Inv(2 * P.y)) % Curve.p
                  ELSE ((Q.y - P.y) * Inv(Q.x - P.x)) % Curve.p
             x == (l * l - P.x - Q.x) % Curve.p
             y == (l * (P.x - x) - P.y) % Curve.p
         IN Point(x, y)

\* k * P by double-and-add
RECURSIVE PointMul(_, _)
PointMul(k, P) ==
    IF k = 0 THEN Infinity
    ELSE LET half == PointMul(k \div 2, P)
             dbl == PointAdd(half, half)
         IN IF k % 2 = 1 THEN PointAdd(dbl, P) ELSE dbl

\* the values a secret key's bytes can hold
KeyBytes == 0..(2 ^ Curve.bits - 1)

\* SecretKey: SecretKey::from_slice accepts the scalars 1..n-1 only
SecretKey == {k \in KeyBytes : k # 0 /\ k < Curve.n}

\* PublicKey::from_secret_key
from_secret_key(sk) == PointMul(sk, G)

\* SecretKey::mul_assign: the tweak must be a valid scalar
secret_mul_assign(sk, other) ==
    IF other \notin KeyBytes \/ other = 0 \/ other >= Curve.n
    THEN ErrOf("InvalidTweak")
    ELSE OkOf((sk * other) % Curve.n)

\* PublicKey::mul_assign: the tweak must be a valid scalar
public_mul_assign(pk, other) ==
    IF other \notin KeyBytes \/ other = 0 \/ other >= Curve.n
    THEN ErrOf("InvalidTweak")
    ELSE OkOf(PointMul(other, pk))

---------------------------------------------------------------------------
(* calculate_deposit_secret_key *)

\* mutant: add_assign in place of mul_assign, the vault key is tweaked by
\* addition (the sum must not be zero)
calculate_deposit_secret_key_add(vk, ik) ==
    IF ik \notin KeyBytes \/ ik >= Curve.n \/ (vk + ik) % Curve.n = 0
    THEN ErrOf("InvalidTweak")
    ELSE OkOf((vk + ik) % Curve.n)

\* lines 89-93
calculate_deposit_secret_key(vk, ik) == secret_mul_assign(vk, ik)

InitKey ==
    /\ vault_key \in SecretKey
    /\ issue_key \in SecretKey
    /\ deposit_key = NoResult
    /\ deposit_public_key = NoResult
    /\ pc = "derive"
    /\ ValidateIdle
    /\ AddrIdle

\* d = v * c
Derive ==
    /\ pc = "derive"
    /\ deposit_key' = calculate_deposit_secret_key(vault_key, issue_key)
    /\ pc' = "public"
    /\ UNCHANGED <<vault_key, issue_key, deposit_public_key>>
    /\ UNCHANGED <<validateVars, addrVars>>

\* D = V * c, computed from the vault's public key alone (lines 123-128)
PublicDerive ==
    /\ pc = "public"
    /\ deposit_public_key' = public_mul_assign(from_secret_key(vault_key), issue_key)
    /\ pc' = "done"
    /\ UNCHANGED <<vault_key, issue_key, deposit_key>>
    /\ UNCHANGED <<validateVars, addrVars>>

NextKey == Derive \/ PublicDerive

SpecKey == InitKey /\ [][NextKey]_vars

---------------------------------------------------------------------------
(* Properties of PriceConfig::validate *)

Done == pc = "done"

Failed(kind) == result.tag = "Err" /\ result.error.kind = kind

\* the two legs of a pair, as a set
Legs(p) == {p.base, p.quote}

First(path) == path[1]
Last(path) == path[Len(path)]

SingleFeed == Cardinality(DOMAIN cfg.feeds) = 1

\* the feed of a single-feed configuration, and its path
TheFeed == CHOOSE n \in DOMAIN cfg.feeds : TRUE
ThePath == cfg.feeds[TheFeed]

\* start check: the path is not empty and its first pair has a target leg
PassesStart(t, path) == path # <<>> /\ Legs(First(path)) \cap Legs(t) # {}

\* the other end: the quote when the first pair has the base, else the base
RequiredEnd(t, path) == IF t.base \in Legs(First(path)) THEN t.quote ELSE t.base

\* end check: the last pair has the required other end as a leg
PassesEnd(t, path) == RequiredEnd(t, path) \in Legs(Last(path))

\* the windows (i, i+1) whose two pairs share no currency
Disconnected(path) ==
    {i \in 1..(Len(path) - 1) : Legs(path[i]) \cap Legs(path[i + 1]) = {}}

Min(S) == CHOOSE i \in S : \A j \in S : i <= j

PassesAll(t, path) ==
    PassesStart(t, path) /\ PassesEnd(t, path) /\ Disconnected(path) = {}

\* p[1..k] is a conversion path x0..xk from one leg of t to the other
ConnectedPath(t, path) ==
    \E x \in [0..Len(path) -> Currency] :
        /\ \/ x[0] = t.base /\ x[Len(path)] = t.quote
           \/ x[0] = t.quote /\ x[Len(path)] = t.base
        /\ \A i \in 1..Len(path) : Legs(path[i]) = {x[i - 1], x[i]}

\* C1 (as claimed): whenever validate returns Ok, every feed's path is a
\* connected conversion path x0..xk from one leg of the target pair to the
\* other, each path pair p[i] having exactly the legs {x(i-1), x(i)}.
\* Stated for target pairs of two different currencies.
C1_OkImpliesConnectedPath ==
    (Done /\ result = Ok /\ cfg.pair.base # cfg.pair.quote) =>
        \A n \in DOMAIN cfg.feeds : ConnectedPath(cfg.pair, cfg.feeds[n])

\* C2: validate returns Ok if and only if every declared feed passes the
\* start, end and chain checks (whatever the override value is, and so for a
\* config with no feeds); an error names a feed whose path fails a check and
\* carries the config's declared pair.
C2_OkIffEveryFeedPasses ==
    Done =>
        /\ result = Ok <=>
               \A n \in DOMAIN cfg.feeds : PassesAll(cfg.pair, cfg.feeds[n])
        /\ result # Ok =>
               /\ result.tag = "Err"
               /\ result.feed \in DOMAIN cfg.feeds
               /\ ~PassesAll(cfg.pair, cfg.feeds[result.feed])
               /\ result.pair = cfg.pair

\* C2 witness: with an override value set and two feeds, the first feed
\* passes and the error names the second
C2_Witness ==
    /\ Done
    /\ cfg.value = "Some"
    /\ DOMAIN cfg.feeds = FeedName
    /\ PassesAll(cfg.pair, cfg.feeds["Kraken"])
    /\ result.tag = "Err"
    /\ result.feed = "GateIo"

\* C3: with a single feed, validate fails with NoStart exactly when the path
\* is empty or its first pair has neither target leg, whatever the last pair
\* and the later hops are.
C3_NoStartIffNoLeg ==
    (Done /\ SingleFeed) =>
        (Failed("NoStart") <=>
            \/ ThePath = <<>>
            \/ /\ First(ThePath).base \notin {cfg.pair.base, cfg.pair.quote}
               /\ First(ThePath).quote \notin {cfg.pair.base, cfg.pair.quote})

\* C3 witness: NoStart on a path whose later hops are connected and whose
\* last pair holds a target leg
C3_Witness ==
    /\ Done /\ SingleFeed
    /\ Failed("NoStart")
    /\ Len(ThePath) = 3
    /\ Disconnected(ThePath) = {}
    /\ cfg.pair.quote \in Legs(Last(ThePath))

\* C4: with a single feed whose path passes the start check, validate fails
\* with NoEnd exactly when the last pair has neither its base nor its quote
\* equal to the required other end, also when the path has a disconnected
\* hop (the end check runs before the chain check).
C4_NoEndIffLastLacksEnd ==
    (Done /\ SingleFeed /\ PassesStart(cfg.pair, ThePath)) =>
        (Failed("NoEnd") <=>
            /\ Last(ThePath).base # RequiredEnd(cfg.pair, ThePath)
            /\ Last(ThePath).quote # RequiredEnd(cfg.pair, ThePath))

\* C4 witness: NoEnd reported on a path that also has a disconnected hop
C4_Witness ==
    /\ Done /\ SingleFeed
    /\ Failed("NoEnd")
    /\ Disconnected(ThePath) # {}

\* C5: with a single feed whose path passes the start and end checks,
\* validate fails with NoPath(left, right) exactly when two consecutive
\* entries share no leg, (left, right) being the first such window, both
\* pairs unchanged; otherwise it returns Ok.
C5_NoPathIsFirstDisconnectedHop ==
    (Done /\ SingleFeed /\ PassesStart(cfg.pair, ThePath)
          /\ PassesEnd(cfg.pair, ThePath)) =>
        IF Disconnected(ThePath) = {}
        THEN result = Ok
        ELSE LET i == Min(Disconnected(ThePath))
             IN result = PriceConfigError(TheFeed, cfg.pair,
                                          NoPath(ThePath[i], ThePath[i + 1]))

\* C5 witness: NoPath on the second window, the first window being connected
C5_Witness ==
    /\ Done /\ SingleFeed
    /\ Failed("NoPath")
    /\ Len(ThePath) = 3
    /\ Disconnected(ThePath) = {2}
    /\ result.error.left = ThePath[2]
    /\ result.error.left.base # result.error.left.quote

\* C10 (as claimed): with a single feed, if the first pair has the target's
\* base then validate succeeds only if the last pair has the target's quote,
\* and if the first pair has the target's quote then validate succeeds only
\* if the last pair has the target's base, also when the first pair has both.
C10_SymmetricEndpoints ==
    (Done /\ SingleFeed /\ result = Ok) =>
        /\ cfg.pair.base \in Legs(First(ThePath)) =>
               cfg.pair.quote \in Legs(Last(ThePath))
        /\ cfg.pair.quote \in Legs(First(ThePath)) =>
               cfg.pair.base \in Legs(Last(ThePath))

\* C10 (amended): with a single feed, if the first pair has the target's
\* base then validate succeeds only if the last pair has the target's quote;
\* if the first pair has the target's quote and not its base then validate
\* succeeds only if the last pair has the target's base.  The base takes
\* precedence when the first pair has both legs.
C10_BaseTakesPrecedence ==
    (Done /\ SingleFeed /\ result = Ok) =>
        /\ cfg.pair.base \in Legs(First(ThePath)) =>
               cfg.pair.quote \in Legs(Last(ThePath))
        /\ (cfg.pair.quote \in Legs(First(ThePath))
                /\ cfg.pair.base \notin Legs(First(ThePath))) =>
               cfg.pair.base \in Legs(Last(ThePath))

\* C10 witness: Ok on a path entered through the quote only
C10_Witness ==
    /\ Done /\ SingleFeed /\ result = Ok
    /\ cfg.pair.base # cfg.pair.quote
    /\ cfg.pair.base \notin Legs(First(ThePath))
    /\ cfg.pair.quote \in Legs(First(ThePath))
    /\ Len(ThePath) = 3

---------------------------------------------------------------------------
(* Properties of PartialAddress *)

\* the run started from a payload, converted by from_payload
FromPayloadRun == payload # NoPayload

\* C7 (as claimed): for every value x of the compact address enum, of each
\* of the kinds P2PKH, P2SH, P2WPKHv0 and P2WSHv0, and every network n,
\* encode_str(x, n) succeeds and decode_str of the string returns x.
C7_AddressRoundTrip ==
    (pc = "done" /\ impl = "Address" /\ ~FromPayloadRun) =>
        /\ btc_address.tag = "Ok"
        /\ decoded = self

\* a version-0 witness program whose length is neither that of a key hash
\* nor that of a witness script hash: Address::from_str rejects its string
NonStandardV0(p) ==
    /\ p.kind = "WitnessProgram"
    /\ p.version = 0
    /\ p.data.len \notin {KeyHashLen, WScriptHashLen}

C9_FromPayloadTotalOnKnownSizes ==
    (impl = "Address" /\ FromPayloadRun /\ pc # "from_payload") =>
        /\ self.tag = "Err" <=>
               /\ payload.kind = "WitnessProgram"
               /\ payload.data.len \notin {KeyHashLen, WScriptHashLen}
        /\ self.tag = "Err" => self = ErrOf("InvalidPayload")
        /\ payload.kind = "PubkeyHash" => self = OkOf(P2PKH(payload.data))
        /\ payload.kind = "ScriptHash" => self = OkOf(P2SH(payload.data))
        /\ (payload.kind = "WitnessProgram" /\ payload.data.len = KeyHashLen) =>
               self = OkOf(P2WPKHv0(payload.data))
        /\ (payload.kind = "WitnessProgram" /\ payload.data.len = WScriptHashLen) =>
               self = OkOf(P2WSHv0(payload.data))

---------------------------------------------------------------------------
(* Properties of calculate_deposit_secret_key *)

\* C6: for all valid secret scalars v and c, calculate_deposit_secret_key(v, c)
\* succeeds and the public key of its result equals V = v.G multiplied by c,
\* and equally C = c.G multiplied by v.
C6_DerivationCommutes ==
    /\ pc # "derive" =>
           /\ deposit_key.tag = "Ok"
           /\ deposit_key.v \in SecretKey
    /\ pc = "done" =>
           /\ deposit_public_key.tag = "Ok"
           /\ from_secret_key(deposit_key.v) = deposit_public_key.v
           /\ from_secret_key(deposit_key.v) =
                  PointMul(vault_key, from_secret_key(issue_key))

\* C6 witness: a derivation whose product v * c wraps around the group order
C6_Witness ==
    /\ pc = "done"
    /\ vault_key # issue_key
    /\ vault_key * issue_key > Curve.n
    /\ deposit_key.tag = "Ok"
    /\ deposit_key.v # 1
    /\ ~deposit_public_key.v.inf
    /\ OnCurve(deposit_public_key.v)

=============================================================================
